---- MODULE Spec2Model ----
(***************************************************************************)
(* Batch ledger, sequence generation and transaction processing of the     *)
(* malldims inventory backend (src/backend/inventory).                     *)
(*                                                                         *)
(* The model follows one brand and one item of that brand: the Item row    *)
(* (quantity, availability_status), its InventoryBatch rows, the           *)
(* Transaction table with the InventoryChange rows of each transaction,    *)
(* and the SKUs of the brand's items.  Every handler reads and writes      *)
(* only the rows of the item it is given, so one item shows each of them.  *)
(***************************************************************************)
EXTENDS Integers, Sequences, FiniteSets, TLC

\* ---------------------------------------------------------------- bounds
MaxQty == 2            \* largest |quantity| a request line or a method call carries
MaxBatchNo == 2        \* largest batch number a request line names
MaxBatches == 3        \* cap on the InventoryBatch rows of the item
MaxTxns == 2           \* cap on the Transaction rows
MaxLines == 2          \* cap on the lines of one transaction request
MaxItems == 3          \* cap on the items (SKUs) of the brand
MaxSeqValue == 4       \* cap on the values the preview endpoints hand out
threshold_value == 1   \* Item.threshold_value of the item followed

Callers == {"a", "b"}
Scopes == {"sku", "batch", "ref"}

\* ------------------------------------------------------------- variables
VARIABLES
    skus,                 \* item numbers NNN of the SKUs "{brand_id+100}-{NNN}" of the brand's items
    batches,              \* InventoryBatch rows of the item, in creation (batch_id) order
    quantity,             \* Item.quantity
    availability_status,  \* Item.availability_status
    txns,                 \* Transaction rows, each with its InventoryChange rows
    pc,                   \* per caller: position in its current request sequence
    scope,                \* per caller: the sequence scope of the value it holds
    held,                 \* per caller: the value the preview endpoint returned to it
    local,                \* per caller: the objects its running request holds in memory
    brandPricing,         \* CustomerBrandPricing rows of the customer for the brand (their tiers), in pk order
    tierPricing,          \* ItemTierPricing rows of the item, in pk order
    specialPricing,       \* CustomerSpecialPricing rows of the customer for the item (their discounts), in pk order
    pricing,              \* the ItemPricing row of the item: a price per tier
    priceLog,             \* history: the last pricing operation, what it saw and returned
    returned,             \* history: per scope, the highest value a preview endpoint returned (0: none yet)
    lastOp                \* history: the last handler run, its input and what it saw

vars == <<skus, batches, quantity, availability_status, txns,
          pc, scope, held, local, returned, lastOp,
          brandPricing, tierPricing, specialPricing, pricing, priceLog>>

pricingVars == <<brandPricing, tierPricing, specialPricing, pricing, priceLog>>

\* --------------------------------------------------------------- helpers
Abs(n) == IF n < 0 THEN -n ELSE n

Max(S) == CHOOSE m \in S : \A x \in S : x <= m

RECURSIVE SumSeq(_)
SumSeq(s) == IF s = <<>> THEN 0 ELSE Head(s) + SumSeq(Tail(s))

RemoveAt(s, i) == [k \in 1..(Len(s) - 1) |-> IF k < i THEN s[k] ELSE s[k + 1]]

\* The record of a handler run: which handler, its input, the error it
\* raised ("" when none) and the rows it started from.
OpRec(op, ttype, lines, idx, q, error) ==
    [op |-> op, ttype |-> ttype, lines |-> lines, idx |-> idx, q |-> q,
     error |-> error, before |-> batches, qtyBefore |-> quantity,
     txnsBefore |-> Len(txns)]

NoOp == [op |-> "none", ttype |-> "", lines |-> <<>>, idx |-> 0, q |-> 0,
         error |-> "", before |-> <<>>, qtyBefore |-> 0, txnsBefore |-> 0]

\* ------------------------------------------------- reference-number text
\* f"{n:04d}": the decimal digits of n, zero-padded on the left to four.
RECURSIVE DigitsOf(_)
DigitsOf(n) == IF n < 10 THEN <<n>> ELSE Append(DigitsOf(n \div 10), n % 10)

FormatRef(n) ==
    LET d == DigitsOf(n)
        pad == IF Len(d) >= 4 THEN 0 ELSE 4 - Len(d)
    IN  [i \in 1..(pad + Len(d)) |-> IF i <= pad THEN 0 ELSE d[i - pad]]

\* int(reference_number.split("-")[1])
RECURSIVE ParseRef(_)
ParseRef(d) == IF d = <<>> THEN 0
               ELSE 10 * ParseRef(SubSeq(d, 1, Len(d) - 1)) + d[Len(d)]

\* String order of two reference numbers of one year (the order the
\* database sorts reference_number by): first differing character decides,
\* a proper prefix sorts first.
StrLess(a, b) ==
    \/ \E k \in 1..Len(a) :
          /\ k <= Len(b)
          /\ \A j \in 1..(k - 1) : a[j] = b[j]
          /\ a[k] < b[k]
    \/ /\ Len(a) < Len(b)
       /\ \A j \in 1..Len(a) : a[j] = b[j]

\* ---------------------------------------------------- sequence generator
\* ItemViewSet.next_sku: count of the brand's items + 1, then the first
\* number from there on whose SKU no item carries.
RECURSIVE SkuProbe(_, _)
SkuProbe(S, n) == IF n \in S THEN SkuProbe(S, n + 1) ELSE n

next_sku(S) == SkuProbe(S, Cardinality(S) + 1)

\* ItemViewSet.next_batch_number: highest batch number of the item + 1.
next_batch_number(bs) ==
    IF bs = <<>> THEN 1
    ELSE Max({bs[i].batch_number : i \in 1..Len(bs)}) + 1

\* ItemBatchViewSet.next_reference_number: the reference that sorts last as
\* a string among the current year's (ref_year 0), its number + 1.
next_reference_number(ts) ==
    LET refs == {ts[i].reference_number :
                    i \in {j \in 1..Len(ts) : ts[j].ref_year = 0}} \ {<<>>}
    IN  IF refs = {} THEN 1
        ELSE LET last == CHOOSE r \in refs : \A x \in refs : ~StrLess(r, x)
             IN  ParseRef(last) + 1

NextValue(s) ==
    CASE s = "sku"   -> next_sku(skus)
      [] s = "batch" -> next_batch_number(batches)
      [] s = "ref"   -> ParseRef(FormatRef(next_reference_number(txns)))

\* ------------------------------------------ TransactionCreateSerializer
ItemId == "X"          \* primary key of the item followed; any other id is unknown

Line(item, qc, bn, cost) ==
    [item |-> item, quantity_change |-> qc, batch_number |-> bn, cost_price |-> cost]

\* The availability_status the handler derives from the new quantity.
StatusFor(q) ==
    IF q > threshold_value THEN "In Stock"
    ELSE IF q <= threshold_value /\ q > 0 THEN "Low Stock"
    ELSE "Out of Stock"

NewBatch(bn, q) ==
    [batch_number |-> bn, initial_quantity |-> q, quantity_available |-> q,
     quantity_reserved |-> 0, batch_status |-> "Active"]

\* An InventoryChange (or TransactionItem) row: unit_price is 0, the field's
\* default, unless the handler passes one.
Change(qc, bn, kind, unit_price) ==
    [quantity_change |-> qc, batch_number |-> bn, change_type |-> kind,
     unit_price |-> unit_price]

Failed(db, why) == [db |-> db, error |-> why]

\* A Transaction row as objects.create stores it: the fields the request
\* does not carry take their defaults (the three completion flags False,
\* transaction_status 'Completed').  reference_number holds the digits
\* after "{year}-" and ref_year the year before it, counted from the
\* current year (0: this year, -1: last year).
TxnRow(ttype, ref, changes) ==
    [transaction_type |-> ttype, reference_number |-> ref, ref_year |-> 0,
     changes |-> changes,
     is_released |-> FALSE, is_paid |-> FALSE, is_or_sent |-> FALSE,
     transaction_status |-> "Completed"]

\* A receive line: abs() of the quantity, the required fields, the lookup of
\* the batch number among the item's batches, then the batch row, the
\* inventory change and the item's quantity and status.
ReceiveLine(db, line) ==
    LET q == Abs(line.quantity_change)
    IN  IF line.batch_number = 0 THEN Failed(db, "Batch number is required")
        ELSE IF line.cost_price = 0 THEN Failed(db, "Cost price is required")
        ELSE IF \E i \in 1..Len(db.batches) :
                    db.batches[i].batch_number = line.batch_number
             THEN Failed(db, "Batch number already exists")
        ELSE [db |-> [batches |-> Append(db.batches, NewBatch(line.batch_number, q)),
                      changes |-> Append(db.changes,
                                         Change(q, line.batch_number, "PURCHASE",
                                                line.cost_price)),
                      quantity |-> db.quantity + q,
                      availability_status |-> StatusFor(db.quantity + q)],
              error |-> ""]

\* A line of any other transaction type: an inventory change without a
\* batch; only 'Dispatch goods' moves the item's quantity, by -abs().
OtherLine(db, ttype, line) ==
    LET isDispatch == ttype = "Dispatch goods"
        qc == IF isDispatch THEN -Abs(line.quantity_change) ELSE line.quantity_change
        withChange == [db EXCEPT !.changes =
                          Append(@, Change(qc, 0, IF isDispatch THEN "SALE"
                                                  ELSE "ADJUSTMENT", 0))]
    IN  [db |-> IF isDispatch
                THEN [withChange EXCEPT !.quantity = @ + qc,
                                        !.availability_status = StatusFor(db.quantity + qc)]
                ELSE withChange,
         error |-> ""]

ProcessLine(db, ttype, line) ==
    IF line.item # ItemId THEN Failed(db, "Item does not exist")
    ELSE IF ttype = "Receive Products" THEN ReceiveLine(db, line)
    ELSE OtherLine(db, ttype, line)

\* The loop over items_data: the first line that raises ends the request,
\* what the lines before it wrote stays written.
RECURSIVE ProcessLines(_, _, _)
ProcessLines(db, ttype, lines) ==
    IF lines = <<>> THEN [db |-> db, error |-> ""]
    ELSE LET r == ProcessLine(db, ttype, Head(lines))
         IN  IF r.error # "" THEN r
             ELSE ProcessLines(r.db, ttype, Tail(lines))

\* TransactionCreateSerializer.create on the current rows.
CreateResult(ttype, lines) ==
    ProcessLines([batches |-> batches, changes |-> <<>>, quantity |-> quantity,
                  availability_status |-> availability_status], ttype, lines)

\* The rows one transaction request writes: the Transaction row first,
\* then what the lines write.
Create(ttype, ref, lines) ==
    LET r == CreateResult(ttype, lines)
    IN  /\ Len(txns) < MaxTxns
        /\ Len(r.db.batches) <= MaxBatches
        /\ Abs(r.db.quantity) <= MaxQty * MaxBatches
        /\ txns' = Append(txns, TxnRow(ttype, ref, r.db.changes))
        /\ batches' = r.db.batches
        /\ quantity' = r.db.quantity
        /\ availability_status' = r.db.availability_status

\* What a request holds in memory: the quantity q it carries, the Item
\* instance it loaded (its quantity), the Transaction row it created, the
\* InventoryBatch instance it loaded (row idx and the fields read);
\* peers (history): the callers whose request was under way when this one
\* asked for its value; tier: the pricing tier of a brand assignment.
NoLocal == [q |-> 0, item_quantity |-> 0, txn |-> 0, idx |-> 0,
            batch |-> NewBatch(0, 0), peers |-> {}, tier |-> ""]

\* ------------------------------------------------------------- pricing
\* PRICING_TIER_CHOICES, from the most to the least favourable tier.
PRICING_TIERS == <<"RD", "PD", "DD", "CD", "RS", "SUB", "SRP">>

\* The tiers the requests of the model name.
TierInputs == {"PD", "RS", "SRP"}

\* pricing_details as get_price builds it, with the price returned next to
\* it; "None" and "" stand for None.
PriceResult(tier, base, discount, special, final, error) ==
    [returned_price |-> final, pricing_tier |-> tier, base_price |-> base,
     special_discount |-> discount, has_special_pricing |-> special,
     final_price |-> final, error |-> error,
     tier_restriction_violated |-> FALSE, tier_override |-> FALSE]

\* ItemTierPricing.objects.filter(item=item, pricing_tier=tier)
TierRows(tp, tier) == SelectSeq(tp, LAMBDA r : r.pricing_tier = tier)

\* get_price falling back to the item's first price when there is none at
\* the customer's tier.
get_price_fallback(bp, tp, sp) ==
    IF bp = <<>>
    THEN PriceResult("None", 0, 0, FALSE, 0, "No pricing tier found")
    ELSE IF tp = <<>>
         THEN PriceResult(bp[1], 0, 0, FALSE, 0, "No price found")
         ELSE LET rows == IF TierRows(tp, bp[1]) = <<>> THEN tp ELSE TierRows(tp, bp[1])
              IN  IF sp # <<>>
                  THEN PriceResult(bp[1], rows[1].price, sp[1], TRUE,
                                   rows[1].price + sp[1], "")
                  ELSE PriceResult(bp[1], rows[1].price, 0, FALSE, rows[1].price, "")

\* get_price reporting the special discount without applying it.
get_price_undiscounted(bp, tp, sp) ==
    IF bp = <<>>
    THEN PriceResult("None", 0, 0, FALSE, 0, "No pricing tier found")
    ELSE IF TierRows(tp, bp[1]) = <<>>
         THEN PriceResult(bp[1], 0, 0, FALSE, 0, "No price found")
         ELSE PriceResult(bp[1], TierRows(tp, bp[1])[1].price,
                          IF sp # <<>> THEN sp[1] ELSE 0, sp # <<>>,
                          TierRows(tp, bp[1])[1].price, "")

\* PricingService.get_price on the rows of the customer and the item.
get_price(bp, tp, sp) ==
    IF bp = <<>>
    THEN PriceResult("None", 0, 0, FALSE, 0, "No pricing tier found")
    ELSE LET tier == bp[1]
             rows == TierRows(tp, tier)
         IN  IF rows = <<>>
             THEN PriceResult(tier, 0, 0, FALSE, 0, "No price found")
             ELSE IF sp # <<>>
                  THEN PriceResult(tier, rows[1].price, sp[1], TRUE,
                                   rows[1].price + sp[1], "")
                  ELSE PriceResult(tier, rows[1].price, 0, FALSE, rows[1].price, "")

\* The record of a pricing query: its arguments, its result, the rows it
\* started from, and, when the operation before it was the same query
\* (again), the result of that one.
PriceOp(op, res, arg) ==
    [op |-> op, res |-> res, arg |-> arg,
     again |-> priceLog.op = op /\ priceLog.arg = arg,
     prev |-> IF priceLog.op = op /\ priceLog.arg = arg
              THEN priceLog.res ELSE PriceResult("None", 0, 0, FALSE, 0, ""),
     cfg |-> <<brandPricing, tierPricing, specialPricing, pricing>>]

NoPriceOp ==
    [op |-> "none", res |-> PriceResult("None", 0, 0, FALSE, 0, ""), arg |-> <<>>,
     again |-> FALSE, prev |-> PriceResult("None", 0, 0, FALSE, 0, ""),
     cfg |-> <<>>]

\* ------------------------------------------------------------------ Init
Init ==
    /\ skus = {}
    /\ batches = <<>>
    /\ quantity = 0
    /\ availability_status = "Out of Stock"
    /\ txns = <<>>
    /\ pc = [c \in Callers |-> "idle"]
    /\ scope = [c \in Callers |-> "sku"]
    /\ held = [c \in Callers |-> 0]
    /\ local = [c \in Callers |-> NoLocal]
    /\ returned = [s \in Scopes |-> 0]
    /\ lastOp = NoOp
    /\ brandPricing = <<>>
    /\ tierPricing = <<>>
    /\ specialPricing = <<>>
    /\ pricing = [i \in 1..Len(PRICING_TIERS) |-> 0]
    /\ priceLog = NoPriceOp

ledgerVars == <<batches, quantity, availability_status, txns>>
callerVars == <<pc, scope, held, local, returned>>

\* ------------------------------------ preview, then persist (two requests)
\* GET next-sku / next-batch-number / next_reference_number: the caller is
\* handed the next value of the scope; nothing is written.
Preview(c, s) ==
    /\ pc[c] = "idle"
    /\ \A t \in Scopes \ {s} : returned[t] = 0     \* a behaviour exercises one scope
    /\ NextValue(s) <= MaxSeqValue
    /\ pc' = [pc EXCEPT ![c] = "holding"]
    /\ scope' = [scope EXCEPT ![c] = s]
    /\ held' = [held EXCEPT ![c] = NextValue(s)]
    /\ local' = [local EXCEPT ![c] =
                    [NoLocal EXCEPT !.peers = {d \in Callers \ {c} :
                                                 pc[d] \in {"holding", "checked"}}]]
    /\ returned' = [returned EXCEPT ![s] = IF NextValue(s) > @ THEN NextValue(s) ELSE @]
    /\ UNCHANGED <<pricingVars, skus, ledgerVars, lastOp>>

\* POST of a new item carrying the SKU the caller holds.
CreateItem(c) ==
    /\ pc[c] = "holding" /\ scope[c] = "sku"
    /\ Cardinality(skus) < MaxItems
    /\ IF held[c] \in skus
       THEN /\ pc' = [pc EXCEPT ![c] = "rejected"]
            /\ UNCHANGED skus
       ELSE /\ pc' = [pc EXCEPT ![c] = "persisted"]
            /\ skus' = skus \cup {held[c]}
    /\ UNCHANGED <<pricingVars, ledgerVars, scope, held, local, returned, lastOp>>

\* POST of a receive transaction whose one line names the batch number the
\* caller holds.
PersistBatch(c) ==
    /\ pc[c] = "holding" /\ scope[c] = "batch"
    /\ Create("Receive Products", <<>>, <<Line(ItemId, 1, held[c], 1)>>)
    /\ pc' = [pc EXCEPT ![c] =
                 IF CreateResult("Receive Products",
                                 <<Line(ItemId, 1, held[c], 1)>>).error = ""
                 THEN "persisted" ELSE "rejected"]
    /\ UNCHANGED <<pricingVars, skus, scope, held, local, returned, lastOp>>

\* POST of a transaction carrying the reference number the caller holds.
PersistRef(c) ==
    /\ pc[c] = "holding" /\ scope[c] = "ref"
    /\ Create("Manual correction", FormatRef(held[c]), <<>>)
    /\ pc' = [pc EXCEPT ![c] = "persisted"]
    /\ UNCHANGED <<pricingVars, skus, scope, held, local, returned, lastOp>>

\* The caller is done with the value it held (or drops it unused).
Finish(c) ==
    /\ pc[c] \in {"holding", "persisted", "rejected", "reserved", "refused", "raised"}
    /\ pc' = [pc EXCEPT ![c] = "idle"]
    /\ UNCHANGED <<pricingVars, skus, ledgerVars, scope, held, local, returned, lastOp>>

\* DELETE of an item, a batch, a transaction (ModelViewSet.destroy).
DeleteItem(n) ==
    /\ n \in skus
    /\ skus' = skus \ {n}
    /\ UNCHANGED <<pricingVars, ledgerVars, callerVars, lastOp>>

\* InventoryChange.batch is on_delete=CASCADE: the changes of the batch go
\* with it.
DeleteBatch(i) ==
    /\ i \in 1..Len(batches)
    /\ batches' = RemoveAt(batches, i)
    /\ txns' = [t \in 1..Len(txns) |->
                   [txns[t] EXCEPT !.changes =
                       SelectSeq(@, LAMBDA ch : ch.batch_number # batches[i].batch_number)]]
    /\ UNCHANGED <<pricingVars, skus, quantity, availability_status, callerVars, lastOp>>

DeleteTransaction(i) ==
    /\ i \in 1..Len(txns)
    /\ txns' = RemoveAt(txns, i)
    /\ UNCHANGED <<pricingVars, skus, batches, quantity, availability_status, callerVars, lastOp>>

NextSeq ==
    \/ \E c \in Callers, s \in Scopes : Preview(c, s)
    \/ \E c \in Callers : CreateItem(c)
    \/ \E c \in Callers : PersistBatch(c)
    \/ \E c \in Callers : PersistRef(c)
    \/ \E c \in Callers : Finish(c)
    \/ \E n \in 1..(MaxItems + 1) : DeleteItem(n)
    \/ \E i \in 1..MaxBatches : DeleteBatch(i)
    \/ \E i \in 1..MaxTxns : DeleteTransaction(i)

SpecSeq == Init /\ [][NextSeq]_vars

\* C1: for every scope, no interleaving of concurrent callers that each
\* obtain the next value of the same scope and then persist a record with
\* it leaves two callers holding the same value.
C1_NoTwoCallersPersistSameValue ==
    \A c1, c2 \in Callers :
        (c1 # c2 /\ pc[c1] = "persisted" /\ pc[c2] = "persisted"
                 /\ scope[c1] = scope[c2])
        => held[c1] # held[c2]

\* C3: within one scope every newly returned value is greater than every
\* value returned before for that scope, whatever was allocated or deleted
\* in between.
C3_ReturnedStrictlyIncreasing ==
    [][\A c \in Callers :
          (pc[c] = "idle" /\ pc'[c] = "holding")
          => held'[c] > returned[scope'[c]]]_vars

\* ------------------------------------------------- InventoryBatch methods
\* Each method on a batch row: whether it raised, and the row it saved.
reserve_quantity_strict(b, q) ==
    IF q >= b.quantity_available
    THEN [raised |-> TRUE, batch |-> b]
    ELSE [raised |-> FALSE,
          batch |-> [b EXCEPT !.quantity_available = @ - q,
                              !.quantity_reserved = @ + q]]

reserve_quantity(b, q) ==
    IF q > b.quantity_available
    THEN [raised |-> TRUE, batch |-> b]
    ELSE [raised |-> FALSE,
          batch |-> [b EXCEPT !.quantity_available = @ - q,
                              !.quantity_reserved = @ + q]]

release_reservation(b, q) ==
    IF q > b.quantity_reserved
    THEN [raised |-> TRUE, batch |-> b]
    ELSE [raised |-> FALSE,
          batch |-> [b EXCEPT !.quantity_reserved = @ - q,
                              !.quantity_available = @ + q]]

fulfill_order(b, q) ==
    IF q > b.quantity_reserved
    THEN [raised |-> TRUE, batch |-> b]
    ELSE [raised |-> FALSE,
          batch |-> [b EXCEPT !.quantity_reserved = @ - q,
                              !.batch_status =
                                  IF b.quantity_available + (b.quantity_reserved - q) = 0
                                  THEN "Sold Out" ELSE @]]

\* The arguments a method call may carry: any integer, here of small size.
MethodQty == (0 - MaxQty)..MaxQty

QtyCap == MaxQty + 1

WithinCap(b) ==
    /\ Abs(b.quantity_available) <= QtyCap
    /\ Abs(b.quantity_reserved) <= QtyCap

\* A method called on the stored row i with argument q.
CallMethod(name, r, i, q) ==
    /\ i \in 1..Len(batches)
    /\ WithinCap(r.batch)
    /\ batches' = [batches EXCEPT ![i] = r.batch]
    /\ lastOp' = OpRec(name, "", <<>>, i, q, IF r.raised THEN "ValueError" ELSE "")
    /\ UNCHANGED <<pricingVars, skus, quantity, availability_status, txns, callerVars>>

Reserve(i, q) == i \in 1..Len(batches) /\ CallMethod("reserve", reserve_quantity(batches[i], q), i, q)

Release(i, q) == i \in 1..Len(batches) /\ CallMethod("release", release_reservation(batches[i], q), i, q)

Fulfill(i, q) == i \in 1..Len(batches) /\ CallMethod("fulfill", fulfill_order(batches[i], q), i, q)

\* InventoryBatchSerializer: the field check and validate() on the
\* quantities of a batch, then the row is saved with them.  validate()
\* compares only when the data carries initial_quantity; a partial update
\* carries quantity_available alone.
BatchDataValid(d) ==
    /\ ~(d.quantity_available < 0)
    /\ (d.has_initial =>
          ~(d.initial_quantity < d.quantity_available + d.quantity_reserved))

SaveBatch(i, d) ==
    /\ i \in 1..Len(batches)
    /\ IF BatchDataValid(d)
       THEN /\ batches' = [batches EXCEPT ![i] =
                              IF d.has_initial
                              THEN [@ EXCEPT !.initial_quantity = d.initial_quantity,
                                             !.quantity_available = d.quantity_available,
                                             !.quantity_reserved = d.quantity_reserved]
                              ELSE [@ EXCEPT !.quantity_available = d.quantity_available]]
            /\ lastOp' = OpRec("save_batch", "", <<>>, i, 0, "")
       ELSE /\ UNCHANGED batches
            /\ lastOp' = OpRec("save_batch", "", <<>>, i, 0, "ValidationError")
    /\ UNCHANGED <<pricingVars, skus, quantity, availability_status, txns, callerVars>>

\* The quantities a serializer request carries: around zero on both sides.
BatchData ==
    [has_initial : {TRUE}, initial_quantity : {0, 1},
     quantity_available : {-1, 0, 1}, quantity_reserved : {-1, 0, 1}]
    \cup
    [has_initial : {FALSE}, initial_quantity : {0},
     quantity_available : {-1, 0, QtyCap}, quantity_reserved : {0}]

\* The rows the batch-method specification works on: the first batch row.
LedgerRows == {1}

\* A receive transaction of one line (the only way a batch row is created).
ReceiveOne(q, bn) ==
    /\ Create("Receive Products", <<>>, <<Line(ItemId, q, bn, 1)>>)
    /\ lastOp' = OpRec("create", "Receive Products", <<Line(ItemId, q, bn, 1)>>, 0, q,
                       CreateResult("Receive Products", <<Line(ItemId, q, bn, 1)>>).error)
    /\ UNCHANGED <<pricingVars, skus, callerVars>>

ReceiveFirst(q) == Len(batches) < Cardinality(LedgerRows) /\ ReceiveOne(q, 1)

NextBatch ==
    \/ \E q \in MethodQty : ReceiveFirst(q)
    \/ \E i \in LedgerRows, q \in MethodQty : Reserve(i, q)
    \/ \E i \in LedgerRows, q \in MethodQty : Release(i, q)
    \/ \E i \in LedgerRows, q \in MethodQty : Fulfill(i, q)
    \/ \E i \in LedgerRows, d \in BatchData : SaveBatch(i, d)

SpecBatch == Init /\ [][NextBatch]_vars

\* C4: in every reachable state every batch has
\* 0 <= available quantity <= initial quantity.
C4_AvailableWithinInitial ==
    \A i \in 1..Len(batches) :
        /\ 0 <= batches[i].quantity_available
        /\ batches[i].quantity_available <= batches[i].initial_quantity

\* C8: taking q from one batch (reserve_quantity) raises and leaves the row
\* as it was when q exceeds the available quantity, and otherwise lowers
\* the available quantity by exactly q.
C8_ReserveTakesExactlyOrFails ==
    lastOp.op = "reserve" =>
        LET b0 == lastOp.before[lastOp.idx]
            b1 == batches[lastOp.idx]
        IN  IF lastOp.q > b0.quantity_available
            THEN lastOp.error # "" /\ b1 = b0
            ELSE /\ lastOp.error = ""
                 /\ b1.quantity_available = b0.quantity_available - lastOp.q

\* A reserve call that took a positive quantity, all that was available.
C8_Witness ==
    /\ lastOp.op = "reserve" /\ lastOp.error = "" /\ lastOp.q > 0
    /\ lastOp.before[lastOp.idx].quantity_available = lastOp.q
    /\ batches[lastOp.idx].quantity_available = 0

\* A reserve call that asked for more than was available and was refused.
C8_Refused ==
    /\ lastOp.op = "reserve" /\ lastOp.error # ""
    /\ lastOp.q > lastOp.before[lastOp.idx].quantity_available

\* ------------------------------------------------- transaction requests
TransactionTypes == {"Receive Products", "Dispatch goods", "Manual correction"}

QtyInputs == (0 - MaxQty)..MaxQty

\* The lines a request of a type may carry.  A line naming an unknown item
\* raises before any other field is used, a receive line without a batch
\* number or without a cost price raises before anything else of it is
\* used, and the lines of a type other than 'Receive Products' never read
\* batch_number or cost_price: one line stands for each of these.
LineInputs(ttype) ==
    {Line("unknown", 1, 0, 0)} \cup
    (IF ttype = "Receive Products"
     THEN {Line(ItemId, 1, 0, 1), Line(ItemId, 1, 1, 0)} \cup
          {Line(ItemId, q, bn, 1) : q \in QtyInputs, bn \in 1..MaxBatchNo}
     ELSE {Line(ItemId, q, 0, 0) : q \in QtyInputs})

RECURSIVE SeqsUpTo(_, _)
SeqsUpTo(S, n) ==
    IF n = 0 THEN {<<>>}
    ELSE LET shorter == SeqsUpTo(S, n - 1)
         IN  shorter \cup {Append(t, x) : t \in shorter, x \in S}

Requests(ttype) == SeqsUpTo(LineInputs(ttype), MaxLines) \ {<<>>}

\* POST /transactions/: TransactionViewSet.perform_create saves through
\* TransactionCreateSerializer.create; the request carries the reference
\* number the preview endpoint shows.
CreateTransaction(ttype, lines) ==
    /\ Create(ttype, FormatRef(next_reference_number(txns)), lines)
    /\ lastOp' = OpRec("create", ttype, lines, 0, 0, CreateResult(ttype, lines).error)
    /\ UNCHANGED <<pricingVars, skus, callerVars>>

\* serializers_new.TransactionCreateSerializer.create: the Transaction row
\* and one TransactionItem row per line (each line of the request carrying
\* a unit price of 1); no quantity is touched.
ServiceTypes == {"INCOMING", "OUTGOING", "ADJUSTMENT"}

RecordTransaction(ttype, qs) ==
    /\ Len(txns) < MaxTxns
    /\ txns' = Append(txns,
                      TxnRow(ttype, FormatRef(next_reference_number(txns)),
                             [k \in 1..Len(qs) |-> Change(qs[k], 0, "ITEM", 1)]))
    /\ lastOp' = OpRec("record", ttype, <<>>, 0, SumSeq(qs), "")
    /\ UNCHANGED <<pricingVars, skus, batches, quantity, availability_status, callerVars>>

\* TransactionService.update_inventory_for_transaction: per line the item
\* is read, its quantity raised (INCOMING) or lowered and clamped at zero
\* (OUTGOING), and saved; batches are not read or written.
RECURSIVE UpdatedQuantity(_, _, _)
UpdatedQuantity(qty, ttype, items) ==
    IF items = <<>> THEN qty
    ELSE LET q == Head(items).quantity_change
             next == IF ttype = "INCOMING" THEN qty + q
                     ELSE IF ttype = "OUTGOING"
                          THEN (IF qty - q < 0 THEN 0 ELSE qty - q)
                          ELSE qty
         IN  UpdatedQuantity(next, ttype, Tail(items))

\* The service run on the transaction just recorded, with its lines.
update_inventory_for_transaction ==
    /\ lastOp.op = "record"
    /\ LET t == txns[Len(txns)]
       IN  /\ quantity' = UpdatedQuantity(quantity, t.transaction_type, t.changes)
           /\ lastOp' = OpRec("update_inventory", t.transaction_type, <<>>, 0,
                              lastOp.q, "")
    /\ UNCHANGED <<pricingVars, skus, batches, availability_status, txns, callerVars>>

NextTxn ==
    \/ \E ttype \in TransactionTypes : \E lines \in Requests(ttype) :
          CreateTransaction(ttype, lines)
    \/ \E ttype \in ServiceTypes : \E qs \in SeqsUpTo(QtyInputs, MaxLines) \ {<<>>} :
          RecordTransaction(ttype, qs)
    \/ update_inventory_for_transaction

SpecTxn == Init /\ [][NextTxn]_vars

\* ItemSerializer.get_total_available_quantity: the available quantities of
\* the item's batches whose status is 'Active', summed.
get_total_available_quantity(bs) ==
    SumSeq([i \in 1..Len(bs) |->
               IF bs[i].batch_status = "Active" THEN bs[i].quantity_available ELSE 0])

\* The remaining quantities of all batches of the item, summed.
BatchSum(bs) == SumSeq([i \in 1..Len(bs) |-> bs[i].quantity_available])

\* The last request was a committed one-line request of the given type.
CommittedOneLine(ttype) ==
    /\ lastOp.op = "create" /\ lastOp.ttype = ttype
    /\ Len(lastOp.lines) = 1 /\ lastOp.error = ""

\* C5: after a committed transaction the quantity reported as available
\* for the item equals the sum of the remaining quantities of its batches,
\* and the item-level quantity equals that sum too.
C5_ItemQuantityEqualsBatchSum ==
    (lastOp.op \in {"create", "update_inventory"} /\ lastOp.error = "")
    => /\ get_total_available_quantity(batches) = BatchSum(batches)
       /\ quantity = BatchSum(batches)

\* What depleteFIFO(item, q) leaves: the batches visited by ascending batch
\* number, each drained before the next is touched, q taken in all.
RECURSIVE FifoDepleted(_, _, _)
FifoDepleted(bs, todo, q) ==
    IF todo = {} \/ q = 0 THEN bs
    ELSE LET i == CHOOSE k \in todo :
                     \A j \in todo : bs[k].batch_number <= bs[j].batch_number
             have == bs[i].quantity_available
             take == IF q < have THEN q ELSE have
         IN  FifoDepleted([bs EXCEPT ![i].quantity_available = @ - take],
                          todo \ {i}, q - take)

\* C6: a successful outgoing request for q units that the batches can
\* cover takes the q units from the batches in ascending batch-number order.
C6_DispatchDepletesFifo ==
    (/\ CommittedOneLine("Dispatch goods")
     /\ Abs(lastOp.lines[1].quantity_change) <= BatchSum(lastOp.before))
    => batches = FifoDepleted(lastOp.before, 1..Len(lastOp.before),
                              Abs(lastOp.lines[1].quantity_change))

\* C7: an outgoing request for more than the item's total available stock
\* fails and leaves every batch quantity and the item's quantity as they
\* were; nothing is partly consumed or clamped.
C7_OverdrawRejectedUnchanged ==
    LET asked == IF lastOp.op = "create"
                 THEN Abs(lastOp.lines[1].quantity_change) ELSE lastOp.q
    IN  (/\ \/ (lastOp.op = "create" /\ lastOp.ttype = "Dispatch goods"
                  /\ Len(lastOp.lines) = 1 /\ lastOp.lines[1].item = ItemId)
            \/ (lastOp.op = "update_inventory" /\ lastOp.ttype = "OUTGOING"
                  /\ Len(txns[Len(txns)].changes) = 1)
         /\ asked > BatchSum(lastOp.before)
         /\ asked > lastOp.qtyBefore)
        => /\ lastOp.error # ""
           /\ batches = lastOp.before
           /\ quantity = lastOp.qtyBefore

\* C9: an incoming line with quantity q > 0 (batch number new, cost price
\* given) creates a batch whose initial and remaining quantity are q; with
\* q <= 0 the line is rejected and no batch is created.
C9_ReceiveCreatesOrRejects ==
    (/\ lastOp.op = "create" /\ lastOp.ttype = "Receive Products"
     /\ Len(lastOp.lines) = 1
     /\ lastOp.lines[1].item = ItemId
     /\ lastOp.lines[1].batch_number # 0 /\ lastOp.lines[1].cost_price # 0
     /\ \A i \in 1..Len(lastOp.before) :
            lastOp.before[i].batch_number # lastOp.lines[1].batch_number)
    => LET q == lastOp.lines[1].quantity_change
       IN  IF q > 0
           THEN /\ lastOp.error = ""
                /\ Len(batches) = Len(lastOp.before) + 1
                /\ batches[Len(batches)].initial_quantity = q
                /\ batches[Len(batches)].quantity_available = q
           ELSE /\ lastOp.error # ""
                /\ batches = lastOp.before

\* ------------------------------------------- requests running side by side
\* The statements of one request run against the database in autocommit,
\* with no transaction.atomic and no select_for_update around them; between
\* two of them another request's statements may run.

\* A receive request up to the look-up of its batch number: the
\* Transaction row is created, the Item instance is loaded, and the request
\* is refused if a batch of the item already carries the number.
BeginReceive(c, q) ==
    /\ pc[c] = "holding" /\ scope[c] = "batch"
    /\ Len(txns) < MaxTxns
    /\ txns' = Append(txns, TxnRow("Receive Products", <<>>, <<>>))
    /\ local' = [local EXCEPT ![c] = [@ EXCEPT !.q = Abs(q),
                                               !.item_quantity = quantity,
                                               !.txn = Len(txns) + 1]]
    /\ pc' = [pc EXCEPT ![c] =
                 IF \E i \in 1..Len(batches) : batches[i].batch_number = held[c]
                 THEN "rejected" ELSE "checked"]
    /\ UNCHANGED <<pricingVars, skus, batches, quantity, availability_status, scope, held,
                   returned, lastOp>>

\* The rest of the receive request: the batch row, the inventory change,
\* and the Item instance saved with its quantity raised.
CompleteReceive(c) ==
    /\ pc[c] = "checked"
    /\ Len(batches) < MaxBatches
    /\ batches' = Append(batches, NewBatch(held[c], local[c].q))
    /\ txns' = [txns EXCEPT ![local[c].txn].changes =
                   Append(@, Change(local[c].q, held[c], "PURCHASE", 1))]
    /\ quantity' = local[c].item_quantity + local[c].q
    /\ availability_status' = StatusFor(local[c].item_quantity + local[c].q)
    /\ pc' = [pc EXCEPT ![c] = "persisted"]
    /\ UNCHANGED <<pricingVars, skus, scope, held, local, returned, lastOp>>

\* A request loads the InventoryBatch instance it is going to reserve from.
LoadBatch(c, i) ==
    /\ pc[c] = "idle"
    /\ i \in 1..Len(batches)
    /\ local' = [local EXCEPT ![c] = [NoLocal EXCEPT !.idx = i, !.batch = batches[i]]]
    /\ pc' = [pc EXCEPT ![c] = "loaded"]
    /\ UNCHANGED <<pricingVars, skus, ledgerVars, scope, held, returned, lastOp>>

\* reserve_quantity(q) on the loaded instance; save() writes the instance's
\* fields over the row.
CallReserve(c, q) ==
    LET r == reserve_quantity(local[c].batch, q)
    IN  /\ pc[c] = "loaded"
        /\ local' = [local EXCEPT ![c].q = q]
        /\ IF r.raised
           THEN /\ pc' = [pc EXCEPT ![c] = "refused"]
                /\ UNCHANGED batches
           ELSE /\ pc' = [pc EXCEPT ![c] = "reserved"]
                /\ batches' = [batches EXCEPT ![local[c].idx] = r.batch]
        /\ UNCHANGED <<pricingVars, skus, quantity, availability_status, txns, scope, held,
                       returned, lastOp>>

PreviewBatchNumber(c) == Preview(c, "batch")

NextRace ==
    \/ \E c \in Callers : PreviewBatchNumber(c)
    \/ \E c \in Callers, q \in 1..MaxQty : BeginReceive(c, q)
    \/ \E c \in Callers : CompleteReceive(c)
    \/ \E c \in Callers, i \in 1..MaxBatches : LoadBatch(c, i)
    \/ \E c \in Callers, q \in 1..MaxQty : CallReserve(c, q)
    \/ \E c \in Callers : Finish(c)

SpecRace == Init /\ [][NextRace]_vars

\* C2: two incoming requests for the item that run side by side, the
\* highest batch number being max_prior when the first of them asks, end
\* with the batch numbers max_prior + 1 and max_prior + 2, one each.
C2_ConcurrentReceivesGetConsecutiveNumbers ==
    \A c1, c2 \in Callers :
        (/\ c1 # c2
         /\ scope[c1] = "batch" /\ scope[c2] = "batch"
         /\ (c2 \in local[c1].peers \/ c1 \in local[c2].peers)
         /\ pc[c1] \in {"persisted", "rejected"}
         /\ pc[c2] \in {"persisted", "rejected"}
         /\ held[c1] <= held[c2])
        => /\ pc[c1] = "persisted" /\ pc[c2] = "persisted"
           /\ held[c2] = held[c1] + 1

\* C10: of two reserve requests on one batch that both read the same
\* stock and together ask for more than it, at most one succeeds; what the
\* two are granted never exceeds what was available.
C10_ConcurrentReservesWithinStock ==
    \A c1, c2 \in Callers :
        (/\ c1 # c2
         /\ pc[c1] = "reserved" /\ pc[c2] = "reserved"
         /\ local[c1].idx = local[c2].idx
         /\ local[c1].batch = local[c2].batch)
        => local[c1].q + local[c2].q <= local[c1].batch.quantity_available

\* C11: when a line of a multi-line transaction request fails validation,
\* nothing of the request is retained: no Transaction row, no batch, no
\* inventory change, no change of the item's quantity.
C11_FailedRequestRetainsNothing ==
    (lastOp.op = "create" /\ Len(lastOp.lines) > 1 /\ lastOp.error # "")
    => /\ Len(txns) = lastOp.txnsBefore
       /\ batches = lastOp.before
       /\ quantity = lastOp.qtyBefore

\* C12: no two committed transactions share a reference number, whether
\* the two requests previewed the same next number or one is a resubmission.
C12_CommittedReferencesDistinct ==
    \A i, j \in 1..Len(txns) :
        (i # j /\ txns[i].reference_number # <<>>)
        => txns[i].reference_number # txns[j].reference_number

\* ------------------------------------------------ pricing configuration
MaxPrice == 2          \* largest price a request carries
MaxDiscount == 2       \* largest |discount| a request carries

\* A configuration operation ends the run of repeated queries.
ConfigOp(name) == [NoPriceOp EXCEPT !.op = "config"]

ledgerAndCallers == <<skus, ledgerVars, callerVars, lastOp>>

\* objects.create on a table whose rows are unique per (customer, brand) or
\* (customer, item): the insert of a second row for the pair raises
\* IntegrityError.  The tables here hold the rows of one pair.
CreateRowUnconstrained(rows, row) == [raised |-> FALSE, rows |-> Append(rows, row)]

CreateRow(rows, row) ==
    IF rows # <<>> THEN [raised |-> TRUE, rows |-> rows]
    ELSE [raised |-> FALSE, rows |-> Append(rows, row)]

\* update_or_create / "existing ... save() else create": the first row of
\* the pair gets the tier, or a row is created.
UpsertTier(bp, tier) ==
    IF bp # <<>> THEN [bp EXCEPT ![1] = tier] ELSE CreateRow(bp, tier).rows

\* CustomerViewSet.set_brand_pricing
set_brand_pricing(tier) ==
    /\ brandPricing' = IF tier = "" THEN brandPricing ELSE UpsertTier(brandPricing, tier)
    /\ priceLog' = ConfigOp("set_brand_pricing")
    /\ UNCHANGED <<ledgerAndCallers, tierPricing, specialPricing, pricing>>

\* CustomerViewSet.assign_all_brands: get_or_create with the SRP default.
assign_all_brands ==
    /\ brandPricing' = IF brandPricing # <<>> THEN brandPricing
                       ELSE CreateRow(brandPricing, "SRP").rows
    /\ priceLog' = ConfigOp("assign_all_brands")
    /\ UNCHANGED <<ledgerAndCallers, tierPricing, specialPricing, pricing>>

\* CustomerBrandPricingViewSet.bulk_create: the assignments in order, those
\* without a tier skipped.
RECURSIVE BulkAssign(_, _)
BulkAssign(bp, tiers) ==
    IF tiers = <<>> THEN bp
    ELSE BulkAssign(IF Head(tiers) = "" THEN bp ELSE UpsertTier(bp, Head(tiers)),
                    Tail(tiers))

bulk_create(tiers) ==
    /\ brandPricing' = BulkAssign(brandPricing, tiers)
    /\ priceLog' = ConfigOp("bulk_create")
    /\ UNCHANGED <<ledgerAndCallers, tierPricing, specialPricing, pricing>>

\* CustomerViewSet.remove_brand_pricing: the first row of the pair is deleted.
remove_brand_pricing ==
    /\ brandPricing # <<>>
    /\ brandPricing' = Tail(brandPricing)
    /\ priceLog' = ConfigOp("remove_brand_pricing")
    /\ UNCHANGED <<ledgerAndCallers, tierPricing, specialPricing, pricing>>

\* ItemViewSet.set_pricing_tier: update_or_create of the item's price at a
\* tier; a missing tier or a price of 0 is refused.
set_pricing_tier(tier, price) ==
    /\ tierPricing' =
          IF tier = "" \/ price = 0 THEN tierPricing
          ELSE IF TierRows(tierPricing, tier) # <<>>
               THEN LET k == CHOOSE i \in 1..Len(tierPricing) :
                                 /\ tierPricing[i].pricing_tier = tier
                                 /\ \A j \in 1..(i - 1) : tierPricing[j].pricing_tier # tier
                    IN  [tierPricing EXCEPT ![k].price = price]
               ELSE Append(tierPricing, [pricing_tier |-> tier, price |-> price])
    /\ priceLog' = ConfigOp("set_pricing_tier")
    /\ UNCHANGED <<ledgerAndCallers, brandPricing, specialPricing, pricing>>

\* ItemTierPricingViewSet (ModelViewSet.destroy)
DeleteTierPrice(i) ==
    /\ i \in 1..Len(tierPricing)
    /\ tierPricing' = RemoveAt(tierPricing, i)
    /\ priceLog' = ConfigOp("delete_tier_price")
    /\ UNCHANGED <<ledgerAndCallers, brandPricing, specialPricing, pricing>>

\* PricingService.validate_special_pricing_discount
validate_special_pricing_discount(discount) == discount < 0

\* CustomerViewSet.add_special_pricing: the discount validated, the pair
\* looked up, the row created.
add_special_pricing(discount) ==
    /\ specialPricing' =
          IF ~validate_special_pricing_discount(discount) THEN specialPricing
          ELSE IF specialPricing # <<>> THEN specialPricing
          ELSE CreateRow(specialPricing, discount).rows
    /\ priceLog' = ConfigOp("add_special_pricing")
    /\ UNCHANGED <<ledgerAndCallers, brandPricing, tierPricing, pricing>>

\* CustomerViewSet.remove_special_pricing
remove_special_pricing ==
    /\ specialPricing # <<>>
    /\ specialPricing' = Tail(specialPricing)
    /\ priceLog' = ConfigOp("remove_special_pricing")
    /\ UNCHANGED <<ledgerAndCallers, brandPricing, tierPricing, pricing>>

\* CustomerSpecialPricingViewSet.perform_create
perform_create(discount) ==
    /\ specialPricing' =
          IF ~validate_special_pricing_discount(discount) THEN specialPricing
          ELSE CreateRow(specialPricing, discount).rows
    /\ priceLog' = ConfigOp("perform_create")
    /\ UNCHANGED <<ledgerAndCallers, brandPricing, tierPricing, pricing>>

\* CustomerSpecialPricingViewSet update (ModelViewSet.update, perform_update
\* not overridden): the serializer saves the discount it is given.
UpdateSpecialPricing(i, discount) ==
    /\ i \in 1..Len(specialPricing)
    /\ specialPricing' = [specialPricing EXCEPT ![i] = discount]
    /\ priceLog' = ConfigOp("update_special_pricing")
    /\ UNCHANGED <<ledgerAndCallers, brandPricing, tierPricing, pricing>>

\* get_price looking the tier up with get_or_create(defaults SRP).
GetPriceAssigning ==
    /\ brandPricing' = IF brandPricing = <<>> THEN <<"SRP">> ELSE brandPricing
    /\ priceLog' = PriceOp("get_price",
                           get_price(brandPricing, tierPricing, specialPricing), <<>>)
    /\ UNCHANGED <<ledgerAndCallers, tierPricing, specialPricing, pricing>>

\* A call of PricingService.get_price for the customer and the item.
GetPrice ==
    /\ priceLog' = PriceOp("get_price",
                           get_price(brandPricing, tierPricing, specialPricing), <<>>)
    /\ UNCHANGED <<ledgerAndCallers, brandPricing, tierPricing, specialPricing, pricing>>

TierRequests == TierInputs \cup {""}
DiscountInputs == (0 - MaxDiscount)..MaxDiscount

ConfigNext ==
    \/ \E t \in TierRequests : set_brand_pricing(t)
    \/ assign_all_brands
    \/ \E t1, t2 \in TierRequests : bulk_create(<<t1, t2>>)
    \/ remove_brand_pricing
    \/ \E t \in TierRequests, p \in 0..MaxPrice : set_pricing_tier(t, p)
    \/ \E i \in 1..Cardinality(TierInputs) : DeleteTierPrice(i)
    \/ \E d \in DiscountInputs : add_special_pricing(d)
    \/ remove_special_pricing
    \/ \E d \in DiscountInputs : perform_create(d)
    \/ \E d \in DiscountInputs : UpdateSpecialPricing(1, d)

NextPrice == ConfigNext \/ GetPrice

SpecPrice == Init /\ [][NextPrice]_vars

PricingRows == <<brandPricing, tierPricing, specialPricing, pricing>>

\* C13: get_price changes no stored row, and a call repeated with the
\* pricing configuration unchanged returns the price and the details the
\* call before it returned.
C13_GetPriceReadsOnlyAndRepeats ==
    priceLog.op = "get_price"
    => /\ PricingRows = priceLog.cfg
       /\ priceLog.again => priceLog.res = priceLog.prev

C13_Witness ==
    /\ priceLog.op = "get_price" /\ priceLog.again
    /\ priceLog.res.error = "" /\ priceLog.res.has_special_pricing
    /\ priceLog.res = priceLog.prev

\* Whether the item has a price at the tier, among the rows tp.
HasPriceAt(tp, tier) == \E i \in 1..Len(tp) : tp[i].pricing_tier = tier

\* C14: resolution fails exactly when the chain is broken and names the
\* first missing link: no tier assignment for the customer and the brand,
\* otherwise no price of the item at the assigned tier; a failed resolution
\* reports no price.
C14_FailsExactlyOnBrokenChain ==
    priceLog.op = "get_price"
    => LET bp == priceLog.cfg[1]
           tp == priceLog.cfg[2]
           r  == priceLog.res
       IN  /\ (r.error = "No pricing tier found") <=> (bp = <<>>)
           /\ (r.error = "No price found") <=> (bp # <<>> /\ ~HasPriceAt(tp, bp[1]))
           /\ (r.error = "") <=> (bp # <<>> /\ HasPriceAt(tp, bp[1]))
           /\ r.error # "" => (r.returned_price = 0 /\ r.final_price = 0)

C14_Witness ==
    /\ priceLog.op = "get_price"
    /\ priceLog.res.error = "No price found"
    /\ priceLog.cfg[1] # <<>> /\ priceLog.cfg[2] # <<>>

\* C15: a successful resolution reports as base_price the item's price at
\* the tier assigned to the customer for the brand, and as final_price
\* base_price + discount when the customer has a special discount for the
\* item, base_price otherwise.
C15_FinalPriceIsBasePlusDiscount ==
    (priceLog.op = "get_price" /\ priceLog.res.error = "")
    => LET bp == priceLog.cfg[1]
           tp == priceLog.cfg[2]
           sp == priceLog.cfg[3]
           r  == priceLog.res
       IN  /\ r.pricing_tier = bp[1]
           /\ \E i \in 1..Len(tp) : /\ tp[i].pricing_tier = bp[1]
                                    /\ tp[i].price = r.base_price
           /\ r.final_price = IF sp # <<>> THEN r.base_price + sp[1] ELSE r.base_price
           /\ r.returned_price = r.final_price

C15_Witness ==
    /\ priceLog.op = "get_price" /\ priceLog.res.error = ""
    /\ priceLog.cfg[3] # <<>> /\ priceLog.cfg[3][1] < 0
    /\ priceLog.res.final_price = priceLog.res.base_price + priceLog.cfg[3][1]
    /\ priceLog.res.final_price < priceLog.res.base_price

\* C16: whatever special discounts were created, updated and deleted, every
\* stored discount is <= 0, so a resolved final_price never exceeds its
\* base_price.
C16_StoredDiscountsNotPositive ==
    /\ \A i \in 1..Len(specialPricing) : specialPricing[i] <= 0
    /\ (priceLog.op = "get_price" /\ priceLog.res.error = "")
       => priceLog.res.final_price <= priceLog.res.base_price

\* --------------------------------------------------- seller restriction
\* Account.can_sell_at_tier: the tier is one of the tiers the seller is
\* allowed to sell at.
can_sell_at_tier(allowed, tier) == tier \in allowed

\* PricingService.get_price_for_user_transaction; requested = "" when no
\* tier is requested.
get_price_for_user_transaction(bp, tp, sp, allowed, requested) ==
    LET std == get_price(bp, tp, sp)
        refused == [std EXCEPT !.returned_price = 0,
                               !.error = "cannot sell at tier",
                               !.tier_restriction_violated = TRUE]
    IN  IF requested # ""
        THEN IF ~can_sell_at_tier(allowed, requested) THEN refused
             ELSE IF TierRows(tp, requested) # <<>>
                  THEN [std EXCEPT !.returned_price = TierRows(tp, requested)[1].price,
                                   !.pricing_tier = requested,
                                   !.base_price = TierRows(tp, requested)[1].price,
                                   !.final_price = TierRows(tp, requested)[1].price,
                                   !.tier_override = TRUE]
                  ELSE std
        ELSE IF std.pricing_tier # "None" /\ ~can_sell_at_tier(allowed, std.pricing_tier)
             THEN refused
             ELSE std

\* The allowed-tier sets of the sellers: the tiers below a seller's own
\* tier, or all of them.
AllowedInputs == {{"SRP"}, {"RS", "SRP"}, {"PD", "RS", "SRP"}}

\* PricingUtilsView.post: the price for the customer and the item as the
\* seller may give it.
GetPriceForUser(allowed, requested) ==
    /\ priceLog' = [NoPriceOp EXCEPT
                       !.op = "get_price_for_user_transaction",
                       !.arg = <<allowed, requested>>,
                       !.cfg = <<brandPricing, tierPricing, specialPricing, pricing>>,
                       !.res = get_price_for_user_transaction(
                                   brandPricing, tierPricing, specialPricing,
                                   allowed, requested)]
    /\ UNCHANGED <<ledgerAndCallers, brandPricing, tierPricing, specialPricing, pricing>>

NextSeller ==
    \/ ConfigNext
    \/ \E al \in AllowedInputs, t \in TierRequests : GetPriceForUser(al, t)

SpecSeller == Init /\ [][NextSeller]_vars

\* C18: no successful price is returned at a tier outside the seller's
\* allowed tiers; a requested tier that is not allowed, or without a
\* requested tier an assigned tier that is not allowed, fails with the
\* tier restriction violation.
C18_NoPriceOutsideAllowedTiers ==
    priceLog.op = "get_price_for_user_transaction"
    => LET allowed   == priceLog.arg[1]
           requested == priceLog.arg[2]
           bp        == priceLog.cfg[1]
           r         == priceLog.res
       IN  /\ (r.error = "" /\ ~r.tier_restriction_violated)
              => r.pricing_tier \in allowed
           /\ (requested # "" /\ requested \notin allowed)
              => (r.tier_restriction_violated /\ r.error # "")
           /\ (requested = "" /\ bp # <<>> /\ bp[1] \notin allowed)
              => (r.tier_restriction_violated /\ r.error # "")

\* C19: with a requested tier the seller is allowed, the result depends on
\* the item's price at the requested tier alone: that price, successfully,
\* whatever tier the customer is assigned or none; a failure when the item
\* has no price at the requested tier.
C19_RequestedTierDecidesAlone ==
    (/\ priceLog.op = "get_price_for_user_transaction"
     /\ priceLog.arg[2] # "" /\ priceLog.arg[2] \in priceLog.arg[1])
    => LET requested == priceLog.arg[2]
           tp        == priceLog.cfg[2]
           r         == priceLog.res
       IN  IF HasPriceAt(tp, requested)
           THEN /\ r.error = ""
                /\ r.pricing_tier = requested
                /\ \E i \in 1..Len(tp) : /\ tp[i].pricing_tier = requested
                                         /\ tp[i].price = r.returned_price
           ELSE /\ r.error # ""
                /\ r.returned_price = 0

\* ------------------------------- concurrent pricing configuration requests
\* The views run their statements one by one, with no transaction.atomic
\* around them: another request may run between the look-up of a pair's row
\* and the insert that follows it.

\* add_special_pricing up to its look-up: the discount validated, the pair
\* looked up; 400 when the discount is refused or a row exists.
BeginAddSpecial(c, discount) ==
    /\ pc[c] = "idle"
    /\ local' = [local EXCEPT ![c] = [NoLocal EXCEPT !.q = discount]]
    /\ pc' = [pc EXCEPT ![c] =
                 IF ~validate_special_pricing_discount(discount) THEN "refused"
                 ELSE IF specialPricing # <<>> THEN "refused"
                 ELSE "special_absent"]
    /\ UNCHANGED <<pricingVars, skus, ledgerVars, scope, held, returned, lastOp>>

\* add_special_pricing's objects.create; an IntegrityError is not caught
\* and ends the request.
CompleteAddSpecial(c) ==
    LET r == CreateRow(specialPricing, local[c].q)
    IN  /\ pc[c] = "special_absent"
        /\ specialPricing' = r.rows
        /\ pc' = [pc EXCEPT ![c] = IF r.raised THEN "raised" ELSE "persisted"]
        /\ UNCHANGED <<skus, ledgerVars, scope, held, local, returned, lastOp,
                       brandPricing, tierPricing, pricing, priceLog>>

\* bulk_create up to the look-up of one assignment: filter(...).first().
BeginBulkCreate(c, tier) ==
    /\ pc[c] = "idle"
    /\ tier # ""
    /\ local' = [local EXCEPT ![c] = [NoLocal EXCEPT !.tier = tier]]
    /\ pc' = [pc EXCEPT ![c] = IF brandPricing # <<>> THEN "brand_existing"
                               ELSE "brand_absent"]
    /\ UNCHANGED <<pricingVars, skus, ledgerVars, scope, held, returned, lastOp>>

\* The rest of the assignment: existing.save() with the new tier, or
\* objects.create; an exception ends the request with a 500.
CompleteBulkCreate(c) ==
    /\ pc[c] \in {"brand_existing", "brand_absent"}
    /\ IF pc[c] = "brand_existing"
       THEN /\ brandPricing' = [brandPricing EXCEPT ![1] = local[c].tier]
            /\ pc' = [pc EXCEPT ![c] = "persisted"]
       ELSE LET r == CreateRow(brandPricing, local[c].tier)
            IN  /\ brandPricing' = r.rows
                /\ pc' = [pc EXCEPT ![c] = IF r.raised THEN "raised" ELSE "persisted"]
    /\ UNCHANGED <<skus, ledgerVars, scope, held, local, returned, lastOp,
                   tierPricing, specialPricing, pricing, priceLog>>

NextPriceRace ==
    \/ \E c \in Callers, d \in DiscountInputs : BeginAddSpecial(c, d)
    \/ \E c \in Callers : CompleteAddSpecial(c)
    \/ \E c \in Callers, t \in TierInputs : BeginBulkCreate(c, t)
    \/ \E c \in Callers : CompleteBulkCreate(c)
    \/ \E t \in TierRequests : set_brand_pricing(t)
    \/ assign_all_brands
    \/ \E d \in DiscountInputs : perform_create(d)
    \/ \E c \in Callers : Finish(c)

SpecPriceRace == Init /\ [][NextPriceRace]_vars

RECURSIVE HierarchyLoop(_, _, _)
HierarchyLoop(prices, i, last) ==
    IF i > last
    THEN [is_valid |-> TRUE, message |-> "Pricing hierarchy is valid"]
    ELSE IF prices[i] < prices[i + 1]
         THEN [is_valid |-> FALSE, message |-> "Price hierarchy violation"]
         ELSE HierarchyLoop(prices, i + 1, last)

\* The loop stopping one pair early.
validate_pricing_hierarchy_short(prices) ==
    [result |-> HierarchyLoop(prices, 1, Len(prices) - 2), prices |-> prices]

\* ItemPricing.validate_pricing_hierarchy: the answer, and the prices of the
\* object after the call.
validate_pricing_hierarchy(prices) ==
    [result |-> HierarchyLoop(prices, 1, Len(prices) - 1), prices |-> prices]

\* ItemPricingAdmin: the change form saves the row with one field edited.
AdminSavePricing(i, price) ==
    /\ pricing' = [pricing EXCEPT ![i] = price]
    /\ priceLog' = ConfigOp("admin_save_pricing")
    /\ UNCHANGED <<ledgerAndCallers, brandPricing, tierPricing, specialPricing>>

\* The data of a save through ItemPricingSerializer: one field (a partial
\* update), or all seven, the first k at one price and the rest at another.
OneField(i, price) == [j \in {i} |-> price]
Stepped(k, p, q) == [j \in 1..Len(PRICING_TIERS) |-> IF j <= k THEN p ELSE q]
PricingData ==
    {OneField(i, p) : i \in 1..Len(PRICING_TIERS), p \in 0..MaxPrice}
    \cup {Stepped(k, p, q) : k \in 1..Len(PRICING_TIERS), p \in 0..MaxPrice, q \in 0..MaxPrice}

\* ItemPricing(**data): the fields not in data take their default, 0.
TempPricing(data) ==
    [j \in 1..Len(PRICING_TIERS) |-> IF j \in DOMAIN data THEN data[j] ELSE 0]

\* ItemPricingSerializer.validate, then ModelSerializer.update: the data is
\* refused when the temporary object fails the hierarchy, else its fields
\* are set on the row.
SerializerSavePricing(data) ==
    /\ pricing' = IF validate_pricing_hierarchy(TempPricing(data)).result.is_valid
                  THEN [j \in 1..Len(PRICING_TIERS) |->
                           IF j \in DOMAIN data THEN data[j] ELSE pricing[j]]
                  ELSE pricing
    /\ priceLog' = ConfigOp("serializer_save_pricing")
    /\ UNCHANGED <<ledgerAndCallers, brandPricing, tierPricing, specialPricing>>

\* ItemPricingSerializer.get_pricing_hierarchy_valid: the audit of the row.
AuditPricing ==
    LET r == validate_pricing_hierarchy(pricing)
    IN  /\ pricing' = r.prices
        /\ priceLog' = [NoPriceOp EXCEPT
                           !.op = "validate_pricing_hierarchy",
                           !.arg = pricing,
                           !.res = r.result]
        /\ UNCHANGED <<ledgerAndCallers, brandPricing, tierPricing, specialPricing>>

NextAudit ==
    \/ \E i \in 1..Len(PRICING_TIERS), p \in 0..MaxPrice : AdminSavePricing(i, p)
    \/ \E data \in PricingData : SerializerSavePricing(data)
    \/ AuditPricing

SpecAudit == Init /\ [][NextAudit]_vars

\* Some tier's price is lower than the price of the next tier.
PriceRises(prices) ==
    \E i \in 1..(Len(prices) - 1) : prices[i] < prices[i + 1]

\* C20: the audit reports a violation exactly when, from RD down to SRP,
\* some tier's price is lower than the next tier's; it reports valid
\* otherwise, and the prices after it are the prices before it.
C20_AuditReportsExactlyRisingPrices ==
    priceLog.op = "validate_pricing_hierarchy"
    => /\ priceLog.res.is_valid <=> ~PriceRises(priceLog.arg)
       /\ pricing = priceLog.arg

\* The audit reported a violation for prices that rise only at the last
\* pair, SUB to SRP.
C20_Witness ==
    /\ priceLog.op = "validate_pricing_hierarchy"
    /\ ~priceLog.res.is_valid
    /\ pricing[6] < pricing[7]
    /\ \A i \in 1..5 : pricing[i] >= pricing[i + 1]

\* ------------------------------------------------ transaction completion
\* The rows of the Transaction table the completion specification follows.
StatusRows == {1, 2}

FlagNames == {"is_released", "is_paid", "is_or_sent"}

\* The flags a request body may name, each with a boolean.
FlagData == UNION {[S -> BOOLEAN] : S \in SUBSET FlagNames}

\* setattr(transaction, field, request.data[field]) for the fields named.
ApplyFlags(row, data) ==
    [f \in DOMAIN row |-> IF f \in DOMAIN data THEN data[f] ELSE row[f]]

\* serializers_new.TransactionCreateSerializer.create with the flags of the
\* request among the validated data.
RecordWithFlags(ttype, qs, data) ==
    /\ Len(txns) < Cardinality(StatusRows)
    /\ txns' = Append(txns,
                      ApplyFlags(TxnRow(ttype, FormatRef(next_reference_number(txns)),
                                        [k \in 1..Len(qs) |-> Change(qs[k], 0, "ITEM", 1)]),
                                 data))
    /\ lastOp' = OpRec("record", ttype, data, 0, SumSeq(qs), "")
    /\ UNCHANGED <<pricingVars, skus, batches, quantity, availability_status, callerVars>>

\* update_status without the check of the transaction type.
update_status_any_type(i, data) ==
    /\ i \in 1..Len(txns)
    /\ txns' = [txns EXCEPT ![i] = ApplyFlags(@, data)]
    /\ lastOp' = OpRec("update_status", txns[i].transaction_type, data, i, 0, "")
    /\ UNCHANGED <<pricingVars, skus, batches, quantity, availability_status, callerVars>>

\* TransactionViewSet.update_status: 400 unless the transaction is OUTGOING,
\* else the named flags are set on the loaded row and the row is saved.
update_status(i, data) ==
    /\ i \in 1..Len(txns)
    /\ IF txns[i].transaction_type # "OUTGOING"
       THEN /\ UNCHANGED txns
            /\ lastOp' = OpRec("update_status", txns[i].transaction_type, data, i, 0,
                               "Status updates are only allowed for OUTGOING transactions")
       ELSE /\ txns' = [txns EXCEPT ![i] = ApplyFlags(@, data)]
            /\ lastOp' = OpRec("update_status", txns[i].transaction_type, data, i, 0, "")
    /\ UNCHANGED <<pricingVars, skus, batches, quantity, availability_status, callerVars>>

\* TransactionViewSet.get_queryset, the status filter: the rows (by index)
\* the query ?status=... returns.
OutgoingTypes == {"OUTGOING", "Dispatch goods"}

AllFlags(t) == t.is_released /\ t.is_paid /\ t.is_or_sent

StatusFilter(ts, status) ==
    CASE status = "pending" ->
            {i \in 1..Len(ts) : /\ ts[i].transaction_type \in OutgoingTypes
                                /\ ~AllFlags(ts[i])}
      [] status = "completed" ->
            {i \in 1..Len(ts) :
                \/ ts[i].transaction_type \in {"INCOMING", "Receive Products"}
                \/ ts[i].transaction_type \in {"ADJUSTMENT", "Manual correction"}
                \/ (ts[i].transaction_type \in OutgoingTypes /\ AllFlags(ts[i]))}
      [] OTHER -> 1..Len(ts)

StatusTypes == ServiceTypes \cup {"Dispatch goods"}

NextStatus ==
    \/ \E ttype \in StatusTypes, data \in FlagData : RecordWithFlags(ttype, <<1>>, data)
    \/ \E i \in StatusRows, data \in FlagData : update_status(i, data)

SpecStatus == Init /\ [][NextStatus]_vars

\* C21: an OUTGOING transaction is reported as completed exactly when its
\* three flags are all true and as pending otherwise; the pending and the
\* completed sets of the status filter are disjoint; and the stored
\* transaction_status never disagrees with the flags.
C21_CompletionDerivedFromFlags ==
    /\ StatusFilter(txns, "pending") \cap StatusFilter(txns, "completed") = {}
    /\ \A i \in 1..Len(txns) :
          txns[i].transaction_type = "OUTGOING"
          => /\ i \in StatusFilter(txns, "completed") <=> AllFlags(txns[i])
             /\ i \in StatusFilter(txns, "pending") <=> ~AllFlags(txns[i])
             /\ (txns[i].transaction_status = "Completed") <=> AllFlags(txns[i])

\* C28: update_status on a transaction that is not OUTGOING is refused and
\* leaves the row as it was; on an OUTGOING one it sets the flags the
\* request names and leaves the other flags, the lines, every other row and
\* the stock quantities as they were.
C28_UpdateStatusTouchesOnlyNamedFlags ==
    [][lastOp'.op = "update_status"
       => LET i    == lastOp'.idx
              data == lastOp'.lines
          IN  /\ batches' = batches /\ quantity' = quantity
              /\ availability_status' = availability_status
              /\ Len(txns') = Len(txns)
              /\ \A j \in 1..Len(txns) : j # i => txns'[j] = txns[j]
              /\ IF txns[i].transaction_type # "OUTGOING"
                 THEN lastOp'.error # "" /\ txns'[i] = txns[i]
                 ELSE /\ lastOp'.error = ""
                      /\ \A f \in DOMAIN txns[i] :
                            txns'[i][f] = IF f \in DOMAIN data THEN data[f]
                                          ELSE txns[i][f]]_vars

\* An OUTGOING transaction with one flag set by update_status next to a
\* transaction of another type.
C28_Witness ==
    /\ lastOp.op = "update_status" /\ lastOp.error = ""
    /\ DOMAIN lastOp.lines = {"is_paid"} /\ lastOp.lines["is_paid"]
    /\ txns[lastOp.idx].is_paid /\ ~txns[lastOp.idx].is_released
    /\ \E j \in 1..Len(txns) : txns[j].transaction_type # "OUTGOING"

\* ------------------------------------------------------------ adjustments
\* What depleteLIFO(item, q) leaves: the batches visited by descending
\* batch number, each drained before the next is touched, q taken in all.
RECURSIVE LifoDepleted(_, _, _)
LifoDepleted(bs, todo, q) ==
    IF todo = {} \/ q = 0 THEN bs
    ELSE LET i == CHOOSE k \in todo :
                     \A j \in todo : bs[k].batch_number >= bs[j].batch_number
             have == bs[i].quantity_available
             take == IF q < have THEN q ELSE have
         IN  LifoDepleted([bs EXCEPT ![i].quantity_available = @ - take],
                          todo \ {i}, q - take)

\* C22: a committed adjustment line with signed quantity q changes the
\* item's available stock by exactly q: q > 0 adds a new batch of q units,
\* q < 0 takes |q| units from the highest-numbered batches first, and a
\* removal larger than the stock on hand is rejected.
C22_AdjustmentChangesStockByQ ==
    (/\ lastOp.op = "create" /\ lastOp.ttype = "Manual correction"
     /\ Len(lastOp.lines) = 1 /\ lastOp.lines[1].item = ItemId)
    => LET q == lastOp.lines[1].quantity_change
       IN  IF q > 0
           THEN /\ lastOp.error = ""
                /\ Len(batches) = Len(lastOp.before) + 1
                /\ batches[Len(batches)].quantity_available = q
                /\ BatchSum(batches) = BatchSum(lastOp.before) + q
           ELSE IF -q <= BatchSum(lastOp.before)
                THEN /\ lastOp.error = ""
                     /\ batches = LifoDepleted(lastOp.before, 1..Len(lastOp.before), -q)
                ELSE /\ lastOp.error # ""
                     /\ batches = lastOp.before

\* C23: no outgoing line is committed with an unresolved price: when the
\* request supplies no unit price and price resolution fails for the
\* customer and the item, the request is rejected and no line of it is
\* stored with a zero unit price.
C23_NoDispatchLineWithoutPrice ==
    (/\ lastOp.op = "create" /\ lastOp.ttype = "Dispatch goods"
     /\ lastOp.lines # <<>>
     /\ get_price(brandPricing, tierPricing, specialPricing).error # "")
    => /\ lastOp.error # ""
       /\ \A k \in 1..Len(txns[Len(txns)].changes) :
             txns[Len(txns)].changes[k].unit_price # 0

\* C24: once a batch exists its available quantity never increases, and a
\* batch comes into existence only through an incoming transaction or a
\* positive adjustment.
C24_AvailableNeverIncreases ==
    [][/\ \A i \in 1..Len(batches) :
             i <= Len(batches')
             => batches'[i].quantity_available <= batches[i].quantity_available
       /\ Len(batches') > Len(batches)
          => /\ lastOp'.op = "create"
             /\ \/ lastOp'.ttype = "Receive Products"
                \/ (lastOp'.ttype = "Manual correction"
                      /\ lastOp'.lines[1].quantity_change > 0)]_vars

\* The quantities of a batch row are within their bounds.
QuantitiesValid(b) ==
    /\ b.quantity_available >= 0
    /\ b.quantity_reserved >= 0
    /\ b.quantity_available + b.quantity_reserved <= b.initial_quantity

\* C26: a call of reserve_quantity, release_reservation or fulfill_order
\* with any integer argument on a batch whose quantities are within their
\* bounds leaves them within their bounds (available >= 0, reserved >= 0,
\* available + reserved <= initial), and a call that raises leaves the row
\* as it was.
C26_MethodsKeepQuantitiesValid ==
    lastOp.op \in {"reserve", "release", "fulfill"}
    => LET b0 == lastOp.before[lastOp.idx]
           b1 == batches[lastOp.idx]
       IN  /\ QuantitiesValid(b0) => QuantitiesValid(b1)
           /\ lastOp.error # "" => b1 = b0

\* ------------------------------------------------- allowed selling tiers
\* tier_hierarchy.index(tier), 1-based; 0 stands for the ValueError of a
\* value that is no tier.
TierIndex(tier) ==
    IF \E i \in 1..Len(PRICING_TIERS) : PRICING_TIERS[i] = tier
    THEN CHOOSE i \in 1..Len(PRICING_TIERS) : PRICING_TIERS[i] = tier
    ELSE 0

\* tier_hierarchy[index + 1:]
TiersAfter(k) == SubSeq(PRICING_TIERS, k + 1, Len(PRICING_TIERS))

\* Account.get_allowed_selling_tiers: every tier, whoever the user is.
AccountAllowedTiers(cost_tier) == PRICING_TIERS

\* ItemPricing.get_allowed_selling_tiers(user_cost_tier)
ItemPricingAllowedTiers(cost_tier) ==
    IF TierIndex(cost_tier) = 0 THEN <<"SRP">>
    ELSE TiersAfter(TierIndex(cost_tier))

\* InventoryBatch.can_sell_at_tier: the batch's own cost tier when it was
\* bought with a discount, else the tiers after it, ['SRP'] for the last.
BatchCanSellAtTier(cost_tier, discounted) ==
    IF discounted THEN <<cost_tier>>
    ELSE IF TierIndex(cost_tier) = 0 THEN <<"SRP">>
    ELSE IF TierIndex(cost_tier) < Len(PRICING_TIERS)
         THEN TiersAfter(TierIndex(cost_tier))
         ELSE <<"SRP">>

\* The cost tiers asked about: the seven tiers and a value that is none.
CostTiers == {PRICING_TIERS[i] : i \in 1..Len(PRICING_TIERS)} \cup {"None"}

\* One computation of the set, recorded next to the one before it.
TierSetOp(place, cost_tier, tiers) ==
    [NoPriceOp EXCEPT !.op = place, !.arg = cost_tier, !.res = tiers,
                      !.again = priceLog.op \in {"Account", "ItemPricing", "InventoryBatch"},
                      !.prev = [arg |-> priceLog.arg, res |-> priceLog.res]]

AskAccount(cost_tier) ==
    /\ priceLog' = TierSetOp("Account", cost_tier, AccountAllowedTiers(cost_tier))
    /\ UNCHANGED <<ledgerAndCallers, brandPricing, tierPricing, specialPricing, pricing>>

AskItemPricing(cost_tier) ==
    /\ priceLog' = TierSetOp("ItemPricing", cost_tier, ItemPricingAllowedTiers(cost_tier))
    /\ UNCHANGED <<ledgerAndCallers, brandPricing, tierPricing, specialPricing, pricing>>

AskBatch(cost_tier, discounted) ==
    /\ priceLog' = TierSetOp("InventoryBatch", cost_tier,
                             BatchCanSellAtTier(cost_tier, discounted))
    /\ UNCHANGED <<ledgerAndCallers, brandPricing, tierPricing, specialPricing, pricing>>

NextTiers ==
    \/ \E c \in CostTiers : AskAccount(c)
    \/ \E c \in CostTiers : AskItemPricing(c)
    \/ \E c \in CostTiers, d \in BOOLEAN : AskBatch(c, d)

SpecTiers == Init /\ [][NextTiers]_vars

TierSet(tiers) == {tiers[i] : i \in 1..Len(tiers)}

\* C25: the tiers a seller may sell at are only tiers strictly below the
\* seller's own cost tier in the order RD .. SRP, never the own tier or a
\* more favourable one, and two places that compute the set for the same
\* cost tier return the same set.
C25_AllowedTiersStrictlyBelowAndAgree ==
    priceLog.op \in {"Account", "ItemPricing", "InventoryBatch"}
    => /\ TierIndex(priceLog.arg) # 0
          => \A t \in TierSet(priceLog.res) : TierIndex(t) > TierIndex(priceLog.arg)
       /\ (priceLog.again /\ priceLog.prev.arg = priceLog.arg)
          => TierSet(priceLog.prev.res) = TierSet(priceLog.res)

\* C27: after any sequence of receive, dispatch and inventory-update
\* operations the item's stored quantity is never negative, whichever of
\* the two code paths applied the change.
C27_ItemQuantityNeverNegative == quantity >= 0

\* ------------------------------------------- reference numbers by year
\* The numbers of the references clients send: small ones and the ones
\* around the four-digit padding.
RefInputs == {1, 2, 9999, 10000}

\* POST /transactions/ with the reference number "{year}-{n:04d}" written by
\* the client (serializers_new.TransactionCreateSerializer stores it as sent).
PostWithReference(year, n) ==
    /\ Len(txns) < MaxTxns
    /\ txns' = Append(txns, [TxnRow("INCOMING", FormatRef(n), <<>>)
                                EXCEPT !.ref_year = year])
    /\ lastOp' = OpRec("record", "INCOMING", <<>>, 0, n, "")
    /\ UNCHANGED <<pricingVars, skus, batches, quantity, availability_status, callerVars>>

\* GET next_reference_number: the number in the reference returned.
PreviewReference ==
    /\ lastOp' = OpRec("next_reference_number", "", <<>>, 0,
                       ParseRef(FormatRef(next_reference_number(txns))), "")
    /\ UNCHANGED <<pricingVars, skus, ledgerVars, callerVars>>

NextRef ==
    \/ \E year \in {-1, 0}, n \in RefInputs : PostWithReference(year, n)
    \/ PreviewReference

SpecRef == Init /\ [][NextRef]_vars

\* The numeric suffixes of the references of the current year.
CurrentYearNumbers ==
    {ParseRef(txns[i].reference_number) :
        i \in {j \in 1..Len(txns) : /\ txns[j].ref_year = 0
                                    /\ txns[j].reference_number # <<>>}}

\* C29: next_reference_number returns the current year with N, one more
\* than the largest numeric suffix among the existing references of the
\* current year (1 when there is none), also when suffixes exceed the four
\* digits of the padding; references of other years do not affect N.
C29_NextReferenceIsMaxPlusOne ==
    lastOp.op = "next_reference_number"
    => lastOp.q = IF CurrentYearNumbers = {} THEN 1
                  ELSE Max(CurrentYearNumbers) + 1


\* ---------------------------------------------------------------------
\* Availability status against quantity
\* ---------------------------------------------------------------------

\* C30: the item's availability_status matches its quantity ('In Stock'
\* above the threshold, 'Low Stock' from 1 to the threshold, 'Out of Stock'
\* at zero or below) after every receive or dispatch line of
\* TransactionCreateSerializer.create and in every state reached by any
\* sequence of transactions of any type, the service path included.
C30_StatusMatchesQuantity == availability_status = StatusFor(quantity)

====
